---- MODULE Spec2Model ----
(***************************************************************************)
(* Model of CrosswordCreator (src/generate.py): the crossword CSP solver.  *)
(* solve() = enforce_node_consistency(); ac3(); backtrack(dict()).         *)
(* Words are sequences of letters; Python's 0-based character index k of   *)
(* a word is position k + 1 of the sequence.                               *)
(***************************************************************************)
EXTENDS Integers, Sequences, FiniteSets, TLC

VARIABLES
    variables,   \* self.crossword.variables, the set of slots
    varOrder,    \* the iteration order of the set self.crossword.variables
    words,       \* self.crossword.words
    domains,     \* self.domains
    pc,          \* position inside solve(), or the exception that ended it
    k,           \* number of completed iterations of the running `for var` loop
    loopVar,     \* the local `var` of ac3 (left over from its first loop)
    arcs,        \* the local list `arcs` of ac3
    lastArc,     \* the arc (x, y) popped by the last iteration of ac3's loop
    revised,     \* what revise(x, y) returned in that iteration
    ac3Result,   \* the return value of ac3: "none" until it returns
    assignment,  \* the dict shared by all calls of backtrack
    stack,       \* the active calls of backtrack that are inside their loop
    returned,    \* what solve() returned: "pending", "assignment" or "None"
    result       \* the assignment solve() returned

vars == <<variables, varOrder, words, domains, pc, k, loopVar, arcs, lastArc,
          revised, ac3Result, assignment, stack, returned, result>>

----------------------------------------------------------------------------
(* Bounds of the model *)

\* the largest number of words in the word list
MaxWords == 3

Alphabet == {"a", "b"}

WordLengths == {2, 3}

\* every word over Alphabet of a length in WordLengths
Vocabulary == UNION {[1..n -> Alphabet] : n \in WordLengths}

\* the largest number of arcs in a list supplied to ac3
MaxArcs == 2

\* the word lists tried
WordLists == {ws \in SUBSET Vocabulary : Cardinality(ws) <= MaxWords}

----------------------------------------------------------------------------
(* Grid Model: crossword.Variable and crossword.Crossword *)

ACROSS == "across"

DOWN == "down"

Variable(i, j, direction, length) ==
    [i |-> i, j |-> j, direction |-> direction, length |-> length]

\* the cells a slot covers, in word order
Cells(v) ==
    [n \in 1..v.length |->
        <<v.i + (IF v.direction = DOWN THEN n - 1 ELSE 0),
          v.j + (IF v.direction = ACROSS THEN n - 1 ELSE 0)>>]

\* 0-based position of cell c in slot v
IndexOf(v, c) == (CHOOSE n \in 1..v.length : Cells(v)[n] = c) - 1

CellSet(v) == {Cells(v)[n] : n \in 1..v.length}

NoOverlap == <<>>

\* overlaps[x, y]: NoOverlap, or the pair of 0-based indices at which x and y cross
overlaps(x, y) ==
    LET shared == CellSet(x) \cap CellSet(y)
    IN  IF shared = {} THEN NoOverlap
        ELSE LET cell == CHOOSE c \in shared : TRUE
             IN  <<IndexOf(x, cell), IndexOf(y, cell)>>

\* crossword.neighbors(var)
neighbors(var) == {v \in variables : v # var /\ overlaps(v, var) # NoOverlap}

\* one across slot of length 3
Grid1 == {Variable(0, 0, ACROSS, 3)}

\* an across slot of length 3 crossed at its middle cell by a down slot of length 2
Grid2 == {Variable(0, 0, ACROSS, 3), Variable(0, 1, DOWN, 2)}

\* across (length 3) - down (length 3) - across (length 2): a chain of three slots
Grid3 == {Variable(0, 0, ACROSS, 3), Variable(0, 2, DOWN, 3), Variable(2, 1, ACROSS, 2)}

Grids == {Grid1, Grid2, Grid3}

\* the sequences that list every element of S exactly once
Perms(S) ==
    {f \in [1..Cardinality(S) -> S] : \A e \in S : \E n \in 1..Cardinality(S) : f[n] = e}

----------------------------------------------------------------------------
(* Python primitives *)

\* word[idx] raises IndexError unless idx < len(word)
InRange(word, idx) == idx < Len(word)

\* word[idx]
CharAt(word, idx) == word[idx + 1]

\* a set compared with == to the integer 0: never equal in Python
SetEqualsZero(s) == FALSE

\* the stale `var` is unbound when ac3's first loop never ran
Unbound == Variable(-1, -1, "unbound", 0)

\* the None that select_unassigned_variable returns when nothing is unassigned
NoneVar == Variable(-1, -1, "none", 0)

EmptyAssignment == [v \in {} |-> <<>>]

\* assignment[var] = value
Assign(a, var, value) == [v \in DOMAIN a \cup {var} |-> IF v = var THEN value ELSE a[v]]

\* del assignment[var]
Del(a, var) == [v \in DOMAIN a \ {var} |-> a[v]]

----------------------------------------------------------------------------
(* enforce_node_consistency and revise *)

\* faulty variant: only the words that are too long are removed
NodeToRemove_OnlyLonger(var) == {word \in domains[var] : Len(word) > var.length}

\* faulty variant: only the words that are too short are removed
NodeToRemove_OnlyShorter(var) == {word \in domains[var] : Len(word) < var.length}

\* the words the loop body of enforce_node_consistency removes from domains[var]
NodeToRemove(var) == {word \in domains[var] : ~(Len(word) = var.length)}

\* revise(x, y) reads a character outside a word
ReviseRaises(x, y) ==
    /\ x # y
    /\ overlaps(x, y) # NoOverlap
    /\ LET overlap == overlaps(x, y)
       IN  \/ \E word \in domains[x] : ~InRange(word, overlap[1])
           \/ /\ domains[x] # {}
              /\ \E w \in domains[y] : ~InRange(w, overlap[2])

\* faulty variant: a word is kept only if every word of domains[y] agrees with it
ReviseToRemove_AllAgree(x, y) ==
    LET overlap == overlaps(x, y)
    IN  {word \in domains[x] :
            \E w \in domains[y] : CharAt(w, overlap[2]) # CharAt(word, overlap[1])}

\* the list to_remove that revise(x, y) builds
ReviseToRemove(x, y) ==
    LET overlap == overlaps(x, y)
    IN  {word \in domains[x] :
            LET c1 == CharAt(word, overlap[1])
                overlapping == \E w \in domains[y] : CharAt(w, overlap[2]) = c1
            IN  ~overlapping}

\* faulty variant: the flag `revision` is never set
revise_FlagNeverSet(x, y) ==
    IF x = y THEN [domains |-> domains, revision |-> FALSE]
    ELSE IF overlaps(x, y) = NoOverlap THEN [domains |-> domains, revision |-> FALSE]
    ELSE [domains  |-> [domains EXCEPT ![x] = @ \ ReviseToRemove(x, y)],
          revision |-> FALSE]

\* faulty variant: revise always reports a revision
revise_AlwaysRevised(x, y) ==
    IF x = y THEN [domains |-> domains, revision |-> TRUE]
    ELSE IF overlaps(x, y) = NoOverlap THEN [domains |-> domains, revision |-> TRUE]
    ELSE [domains  |-> [domains EXCEPT ![x] = @ \ ReviseToRemove(x, y)],
          revision |-> TRUE]

\* revise(x, y): the domains it leaves and the value it returns
revise(x, y) ==
    IF x = y THEN [domains |-> domains, revision |-> FALSE]
    ELSE IF overlaps(x, y) = NoOverlap THEN [domains |-> domains, revision |-> FALSE]
    ELSE LET to_remove == ReviseToRemove(x, y)
         IN  [domains  |-> [domains EXCEPT ![x] = @ \ to_remove],
              revision |-> to_remove # {}]

----------------------------------------------------------------------------
(* ac3 *)

\* the inner loop of ac3's first loop: for neighbor in norder, append (var, neighbor)
\* unless (neighbor, var) is queued
RECURSIVE InitialArcs(_, _, _)
InitialArcs(queue, var, norder) ==
    IF norder = <<>> THEN queue
    ELSE LET neighbor == Head(norder)
         IN  IF \A n \in 1..Len(queue) : queue[n] # <<neighbor, var>>
             THEN InitialArcs(Append(queue, <<var, neighbor>>), var, Tail(norder))
             ELSE InitialArcs(queue, var, Tail(norder))

\* the loop after a revision: for neighbor in norder, append (x, neighbor) unless
\* neighbor is y or (x, neighbor) is queued
RECURSIVE Requeue(_, _, _, _)
Requeue(queue, x, y, norder) ==
    IF norder = <<>> THEN queue
    ELSE LET neighbor == Head(norder)
         IN  IF neighbor # y /\ \A n \in 1..Len(queue) : queue[n] # <<x, neighbor>>
             THEN Requeue(Append(queue, <<x, neighbor>>), x, y, Tail(norder))
             ELSE Requeue(queue, x, y, Tail(norder))

----------------------------------------------------------------------------
(* assignment_complete, consistent, order_domain_values, select_unassigned_variable *)

assignment_complete(a) == \A var \in variables : var \in DOMAIN a

\* consistent(assignment) can read a character outside a word: a variable that
\* passed the length check is compared with an assigned neighbour whose word
\* is too short for the overlap index
ConsistentRaises(a) ==
    \E var \in DOMAIN a : \E n \in neighbors(var) :
        /\ n \in DOMAIN a
        /\ var.length = Len(a[var])
        /\ ~InRange(a[n], overlaps(var, n)[2])

\* faulty variant: the same word may be used twice
consistent_NoAllDifferent(a) ==
    /\ \A var \in DOMAIN a : var.length = Len(a[var])
    /\ \A var \in DOMAIN a : \A n \in neighbors(var) :
          n \in DOMAIN a =>
              CharAt(a[var], overlaps(var, n)[1]) = CharAt(a[n], overlaps(var, n)[2])

\* faulty variant: assigned neighbours are not compared at their overlap
consistent_NoOverlapCheck(a) ==
    /\ \A var \in DOMAIN a : var.length = Len(a[var])
    /\ \A var \in DOMAIN a : \A other \in DOMAIN a : other # var => a[other] # a[var]

\* consistent(assignment): False as soon as a word has the wrong length, a word is
\* used twice, or two assigned neighbours differ at their overlap
consistent(a) ==
    /\ \A var \in DOMAIN a : var.length = Len(a[var])
    /\ \A var \in DOMAIN a : \A other \in DOMAIN a : other # var => a[other] # a[var]
    /\ \A var \in DOMAIN a : \A n \in neighbors(var) :
          n \in DOMAIN a =>
              CharAt(a[var], overlaps(var, n)[1]) = CharAt(a[n], overlaps(var, n)[2])

\* order_domain_values(var, assignment) reads a character outside a word
OrderRaises(var, a) ==
    \E word \in domains[var] : \E n \in neighbors(var) :
        /\ n \notin DOMAIN a
        /\ domains[n] # {}
        /\ \/ ~InRange(word, overlaps(var, n)[1])
           \/ \E n_word \in domains[n] : ~InRange(n_word, overlaps(var, n)[2])

\* the count order_domain_values computes for `word`
RuledOut(var, a, word) ==
    LET Mismatches(n) ==
            {n_word \in domains[n] :
                ~(CharAt(word, overlaps(var, n)[1]) = CharAt(n_word, overlaps(var, n)[2]))}
        RECURSIVE Sum(_)
        Sum(ns) == IF ns = {} THEN 0
                   ELSE LET n == CHOOSE m \in ns : TRUE
                        IN  Cardinality(Mismatches(n)) + Sum(ns \ {n})
    IN  Sum({n \in neighbors(var) : n \notin DOMAIN a})

\* the key of the sort: count(pair) returns pair[1]
count(pair) == pair[2]

\* list.sort(key=...): a stable ascending sort, here by insertion from the left
RECURSIVE SortByKey(_)
SortByKey(list) ==
    IF list = <<>> THEN <<>>
    ELSE LET sorted == SortByKey(SubSeq(list, 1, Len(list) - 1))
             last   == list[Len(list)]
             before == SelectSeq(sorted, LAMBDA p : count(p) <= count(last))
             after  == SelectSeq(sorted, LAMBDA p : count(p) > count(last))
         IN  before \o <<last>> \o after

\* faulty variant: the list is sorted by descending count
order_domain_values_Descending(var, a, iter) ==
    LET pairs == [n \in 1..Len(iter) |-> <<iter[n], RuledOut(var, a, iter[n])>>]
        sorted == SortByKey(pairs)
    IN  [n \in 1..Len(sorted) |-> sorted[Len(sorted) + 1 - n][1]]

\* order_domain_values(var, assignment) when domains[var] is iterated in the order `iter`
order_domain_values(var, a, iter) ==
    LET pairs == [n \in 1..Len(iter) |-> <<iter[n], RuledOut(var, a, iter[n])>>]
        sorted == SortByKey(pairs)
    IN  [n \in 1..Len(sorted) |-> sorted[n][1]]

INITIAL_MIN == 1000000

INITIAL_MIN_N == 1000000

\* the first loop of select_unassigned_variable over varOrder[n..]: min_domain_vars
RECURSIVE MinDomainVars(_, _, _, _)
MinDomainVars(a, n, min, min_domain_vars) ==
    IF n > Len(varOrder) THEN min_domain_vars
    ELSE LET var == varOrder[n]
         IN  IF var \in DOMAIN a
             THEN MinDomainVars(a, n + 1, min, min_domain_vars)
             ELSE IF Cardinality(domains[var]) < min
             THEN MinDomainVars(a, n + 1, Cardinality(domains[var]), <<var>>)
             ELSE IF Cardinality(domains[var]) = min
             THEN MinDomainVars(a, n + 1, min, Append(min_domain_vars, var))
             ELSE MinDomainVars(a, n + 1, min, min_domain_vars)

\* the second loop: the first variable of the list with the fewest neighbours
RECURSIVE MinNeighborsVar(_, _, _)
MinNeighborsVar(list, min_n, min_var) ==
    IF list = <<>> THEN min_var
    ELSE LET var == Head(list)
         IN  IF Cardinality(neighbors(var)) < min_n
             THEN MinNeighborsVar(Tail(list), Cardinality(neighbors(var)), var)
             ELSE MinNeighborsVar(Tail(list), min_n, min_var)

\* the tie-break of the docstring: the first variable of the list with the most neighbours
RECURSIVE MaxNeighborsVar(_, _, _)
MaxNeighborsVar(list, max_n, max_var) ==
    IF list = <<>> THEN max_var
    ELSE LET var == Head(list)
         IN  IF Cardinality(neighbors(var)) > max_n
             THEN MaxNeighborsVar(Tail(list), Cardinality(neighbors(var)), var)
             ELSE MaxNeighborsVar(Tail(list), max_n, max_var)

\* faulty variant: the first unassigned variable, whatever the size of its domain
select_unassigned_variable_FirstUnassigned(a) ==
    LET open == {n \in 1..Len(varOrder) : varOrder[n] \notin DOMAIN a}
    IN  IF open = {} THEN NoneVar
        ELSE varOrder[CHOOSE n \in open : \A m \in open : n <= m]

\* variant: ties on the domain size go to the highest degree
select_unassigned_variable_HighestDegree(a) ==
    LET min_domain_vars == MinDomainVars(a, 1, INITIAL_MIN, <<>>)
    IN  IF Len(min_domain_vars) = 1 THEN min_domain_vars[1]
        ELSE MaxNeighborsVar(min_domain_vars, -1, NoneVar)

select_unassigned_variable(a) ==
    LET min_domain_vars == MinDomainVars(a, 1, INITIAL_MIN, <<>>)
    IN  IF Len(min_domain_vars) = 1 THEN min_domain_vars[1]
        ELSE MinNeighborsVar(min_domain_vars, INITIAL_MIN_N, NoneVar)

----------------------------------------------------------------------------
(* solve(): the state after __init__ and one action per step *)

Init ==
    /\ variables \in Grids
    /\ varOrder \in Perms(variables)
    /\ words \in WordLists
    /\ domains = [var \in variables |-> words]
    /\ pc = "node"
    /\ k = 0
    /\ loopVar = Unbound
    /\ arcs = <<>>
    /\ lastArc = <<>>
    /\ revised = FALSE
    /\ ac3Result = "none"
    /\ assignment = EmptyAssignment
    /\ stack = <<>>
    /\ returned = "pending"
    /\ result = EmptyAssignment

\* one iteration of the loop of enforce_node_consistency; after the last one
\* solve() goes on to ac3()
EnforceNodeConsistency ==
    /\ pc = "node"
    /\ k < Len(varOrder)
    /\ LET var == varOrder[k + 1]
       IN  domains' = [domains EXCEPT ![var] = @ \ NodeToRemove(var)]
    /\ IF k + 1 = Len(varOrder)
       THEN pc' = "ac3_init" /\ k' = 0
       ELSE pc' = pc /\ k' = k + 1
    /\ UNCHANGED <<variables, varOrder, words, loopVar, arcs, lastArc, revised,
                   ac3Result, assignment, stack, returned, result>>

\* ac3 with arcs=None: one iteration of the loop that builds the initial list
AC3Init ==
    /\ pc = "ac3_init"
    /\ k < Len(varOrder)
    /\ LET var == varOrder[k + 1]
       IN  /\ \E norder \in Perms(neighbors(var)) : arcs' = InitialArcs(arcs, var, norder)
           /\ loopVar' = var
    /\ IF k + 1 = Len(varOrder)
       THEN pc' = "ac3_loop" /\ k' = 0
       ELSE pc' = pc /\ k' = k + 1
    /\ UNCHANGED <<variables, varOrder, words, domains, lastArc, revised,
                   ac3Result, assignment, stack, returned, result>>

\* one iteration of ac3's while loop: pop an arc, revise it, re-enqueue
AC3Step ==
    /\ pc = "ac3_loop"
    /\ Len(arcs) > 0
    /\ LET x == Head(arcs)[1]
           y == Head(arcs)[2]
           rest == Tail(arcs)
       IN  IF ReviseRaises(x, y)
           THEN /\ pc' = "IndexError"
                /\ UNCHANGED <<domains, arcs, lastArc, revised, ac3Result>>
           ELSE LET r == revise(x, y)
                IN  /\ domains' = r.domains
                    /\ lastArc' = <<x, y>>
                    /\ revised' = r.revision
                    /\ IF ~r.revision
                       THEN arcs' = rest /\ UNCHANGED <<pc, ac3Result>>
                       ELSE IF SetEqualsZero(r.domains[x])
                       THEN arcs' = rest /\ ac3Result' = "False" /\ pc' = "bt_call"
                       ELSE IF loopVar = Unbound
                       THEN arcs' = rest /\ pc' = "UnboundLocalError" /\ UNCHANGED ac3Result
                       ELSE /\ \E norder \in Perms(neighbors(loopVar)) :
                                  arcs' = Requeue(rest, x, y, norder)
                            /\ UNCHANGED <<pc, ac3Result>>
    /\ UNCHANGED <<variables, varOrder, words, k, loopVar, assignment, stack,
                   returned, result>>

\* the while loop ends: ac3 returns True and solve() calls backtrack(dict())
AC3Return ==
    /\ pc = "ac3_loop"
    /\ Len(arcs) = 0
    /\ ac3Result' = "True"
    /\ pc' = "bt_call"
    /\ UNCHANGED <<variables, varOrder, words, domains, k, loopVar, arcs, lastArc,
                   revised, assignment, stack, returned, result>>

\* entry of backtrack(assignment): return the complete assignment (every caller
\* passes it up unchanged), or select a variable and order its values
BacktrackCall ==
    /\ pc = "bt_call"
    /\ IF assignment_complete(assignment)
       THEN /\ returned' = "assignment"
            /\ result' = assignment
            /\ pc' = "done"
            /\ UNCHANGED stack
       ELSE LET var == select_unassigned_variable(assignment)
            IN  IF var = NoneVar
                THEN pc' = "KeyError" /\ UNCHANGED <<stack, returned, result>>
                ELSE IF OrderRaises(var, assignment)
                THEN pc' = "IndexError" /\ UNCHANGED <<stack, returned, result>>
                ELSE /\ \E iter \in Perms(domains[var]) :
                           stack' = Append(stack,
                               [var    |-> var,
                                values |-> order_domain_values(var, assignment, iter),
                                tried  |-> 0])
                     /\ pc' = "bt_loop"
                     /\ UNCHANGED <<returned, result>>
    /\ UNCHANGED <<variables, varOrder, words, domains, k, loopVar, arcs, lastArc,
                   revised, ac3Result, assignment>>

\* faulty variant: the chosen value also replaces the domain of the variable
BacktrackAssign_NarrowsDomain ==
    /\ pc = "bt_loop"
    /\ stack # <<>>
    /\ LET top == stack[Len(stack)]
       IN  /\ top.tried < Len(top.values)
           /\ assignment' = Assign(assignment, top.var, top.values[top.tried + 1])
           /\ domains' = [domains EXCEPT ![top.var] = {top.values[top.tried + 1]}]
           /\ stack' = [stack EXCEPT ![Len(stack)].tried = @ + 1]
    /\ pc' = "bt_check"
    /\ UNCHANGED <<variables, varOrder, words, k, loopVar, arcs, lastArc,
                   revised, ac3Result, returned, result>>

\* the loop of backtrack takes the next value: assignment[var] = value
BacktrackAssign ==
    /\ pc = "bt_loop"
    /\ stack # <<>>
    /\ LET top == stack[Len(stack)]
       IN  /\ top.tried < Len(top.values)
           /\ assignment' = Assign(assignment, top.var, top.values[top.tried + 1])
           /\ stack' = [stack EXCEPT ![Len(stack)].tried = @ + 1]
    /\ pc' = "bt_check"
    /\ UNCHANGED <<variables, varOrder, words, domains, k, loopVar, arcs, lastArc,
                   revised, ac3Result, returned, result>>

\* faulty variant: an inconsistent entry is left in the assignment
BacktrackCheck_NoUndo ==
    /\ pc = "bt_check"
    /\ IF consistent(assignment)
       THEN pc' = "bt_call"
       ELSE pc' = "bt_loop"
    /\ UNCHANGED <<variables, varOrder, words, domains, k, loopVar, arcs, lastArc,
                   revised, ac3Result, assignment, stack, returned, result>>

\* faulty variant: the recursion does not wait for the consistency check
BacktrackCheck_AlwaysRecurse ==
    /\ pc = "bt_check"
    /\ pc' = "bt_call"
    /\ UNCHANGED <<variables, varOrder, words, domains, k, loopVar, arcs, lastArc,
                   revised, ac3Result, assignment, stack, returned, result>>

\* if self.consistent(assignment): recurse, else del assignment[var]
BacktrackCheck ==
    /\ pc = "bt_check"
    /\ IF ConsistentRaises(assignment)
       THEN pc' = "IndexError" /\ UNCHANGED assignment
       ELSE IF consistent(assignment)
       THEN pc' = "bt_call" /\ UNCHANGED assignment
       ELSE /\ assignment' = Del(assignment, stack[Len(stack)].var)
            /\ pc' = "bt_loop"
    /\ UNCHANGED <<variables, varOrder, words, domains, k, loopVar, arcs, lastArc,
                   revised, ac3Result, stack, returned, result>>

\* faulty variant: a failed recursive call makes its caller fail too, without
\* trying the caller's next value
BacktrackFail_NoRetry ==
    /\ pc = "bt_loop"
    /\ stack # <<>>
    /\ stack[Len(stack)].tried = Len(stack[Len(stack)].values)
    /\ stack' = <<>>
    /\ returned' = "None"
    /\ pc' = "done"
    /\ UNCHANGED <<variables, varOrder, words, domains, k, loopVar, arcs, lastArc,
                   revised, ac3Result, assignment, result>>

\* the loop of backtrack is exhausted: return None; the caller, if any, deletes
\* its own entry and goes on with its loop
BacktrackFail ==
    /\ pc = "bt_loop"
    /\ stack # <<>>
    /\ stack[Len(stack)].tried = Len(stack[Len(stack)].values)
    /\ stack' = SubSeq(stack, 1, Len(stack) - 1)
    /\ IF Len(stack) = 1
       THEN /\ returned' = "None"
            /\ pc' = "done"
            /\ UNCHANGED assignment
       ELSE /\ assignment' = Del(assignment, stack[Len(stack) - 1].var)
            /\ UNCHANGED <<pc, returned>>
    /\ UNCHANGED <<variables, varOrder, words, domains, k, loopVar, arcs, lastArc,
                   revised, ac3Result, result>>

Next ==
    \/ EnforceNodeConsistency
    \/ AC3Init
    \/ AC3Step
    \/ AC3Return
    \/ BacktrackCall
    \/ BacktrackAssign
    \/ BacktrackCheck
    \/ BacktrackFail

Spec == Init /\ [][Next]_vars

----------------------------------------------------------------------------
(* ac3() on its own, called as solve() calls it: after node consistency,     *)
(* with arcs=None                                                            *)

\* the domains enforce_node_consistency leaves
NodeConsistentDomains(ws) == [var \in variables |-> {word \in ws : Len(word) = var.length}]

InitAC3 ==
    /\ variables \in Grids
    /\ varOrder \in Perms(variables)
    /\ words \in WordLists
    /\ domains = NodeConsistentDomains(words)
    /\ pc = "ac3_init"
    /\ k = 0
    /\ loopVar = Unbound
    /\ arcs = <<>>
    /\ lastArc = <<>>
    /\ revised = FALSE
    /\ ac3Result = "none"
    /\ assignment = EmptyAssignment
    /\ stack = <<>>
    /\ returned = "pending"
    /\ result = EmptyAssignment

NextAC3 ==
    \/ AC3Init
    \/ AC3Step
    \/ AC3Return

\* ac3 is a loop of one thread: an iteration that can run does run
FairSpecAC3 == InitAC3 /\ [][NextAC3]_vars /\ WF_vars(NextAC3)

----------------------------------------------------------------------------
(* ac3(arcs) called with a list of arcs, after node consistency: the first   *)
(* loop is skipped, so the local `var` is never bound                        *)

\* the lists of at most MaxArcs arcs between overlapping variables
SuppliedArcs ==
    UNION {[1..n -> {p \in variables \X variables : p[1] \in neighbors(p[2])}] :
              n \in 0..MaxArcs}

InitArcs ==
    /\ variables \in Grids
    /\ varOrder = CHOOSE order \in Perms(variables) : TRUE
    /\ words \in WordLists
    /\ domains = NodeConsistentDomains(words)
    /\ pc = "ac3_loop"
    /\ k = 0
    /\ loopVar = Unbound
    /\ arcs \in SuppliedArcs
    /\ lastArc = <<>>
    /\ revised = FALSE
    /\ ac3Result = "none"
    /\ assignment = EmptyAssignment
    /\ stack = <<>>
    /\ returned = "pending"
    /\ result = EmptyAssignment

NextArcs ==
    \/ AC3Step
    \/ AC3Return

SpecArcs == InitArcs /\ [][NextArcs]_vars

----------------------------------------------------------------------------
(* The constraints of the puzzle, stated on the grid and the word list *)

\* the words w1 of x and w2 of y carry the same letter in the cell x and y share
Agree(x, w1, y, w2) == w1[overlaps(x, y)[1] + 1] = w2[overlaps(x, y)[2] + 1]

Crossing(x, y) == x # y /\ CellSet(x) \cap CellSet(y) # {}

\* the three constraints on the entries of the mapping s
SatisfiesConstraints(s) ==
    /\ \A v \in DOMAIN s : Len(s[v]) = v.length
    /\ \A u \in DOMAIN s : \A v \in DOMAIN s : u # v => s[u] # s[v]
    /\ \A u \in DOMAIN s : \A v \in DOMAIN s : Crossing(u, v) => Agree(u, s[u], v, s[v])

\* the complete assignments over the word list that satisfy the constraints
Solutions == {s \in [variables -> words] : SatisfiesConstraints(s)}

----------------------------------------------------------------------------
(* C1: every assignment solve() returns is complete, uses only words of the  *)
(* word list, and satisfies the length, all-different and overlap            *)
(* constraints.                                                              *)
C1_ReturnedAssignmentValid ==
    returned = "assignment" =>
        /\ DOMAIN result = variables
        /\ \A v \in variables : result[v] \in words
        /\ SatisfiesConstraints(result)

\* solve() returned an assignment of the three-slot grid
C1_Witness == returned = "assignment" /\ Cardinality(variables) = 3

(* C2: solve() returns None exactly when no complete assignment over the     *)
(* word list satisfies the constraints; when one exists it returns one.      *)
C2_NoneIffUnsolvable ==
    pc = "done" => (returned = "None" <=> Solutions = {})

\* the search was exhausted although every slot had candidate words
C2_Witness ==
    /\ pc = "done"
    /\ returned = "None"
    /\ Cardinality(variables) >= 2
    /\ \A v \in variables : domains[v] # {}

(* C3: pruning never drops a valid solution: in every state, each solution   *)
(* over the original domains still has each of its words in the current      *)
(* domain of its variable.                                                   *)
C3_PruningKeepsSolutions ==
    \A s \in Solutions : \A v \in variables : s[v] \in domains[v]

\* revise has just removed a word while the puzzle has a solution
C3_Witness ==
    /\ pc = "ac3_loop"
    /\ revised
    /\ Solutions # {}

(* C4: after ac3() returns True the domains are arc consistent: every word   *)
(* of domains[x] has, for every neighbour y of x, a word of domains[y] that  *)
(* agrees with it at the overlap.                                            *)
C4_ArcConsistentAfterAC3 ==
    ac3Result = "True" =>
        \A x \in variables : \A y \in variables :
            Crossing(x, y) =>
                \A w \in domains[x] : \E w2 \in domains[y] : Agree(x, w, y, w2)

(* C5: ac3() returns True only if no domain is empty, returns False if some  *)
(* domain ends up empty, and reports failure as soon as revise(x, y) leaves  *)
(* domains[x] empty.                                                         *)
C5_AC3ReportsEmptyDomain ==
    /\ ac3Result = "True" => \A v \in variables : domains[v] # {}
    /\ (ac3Result # "none" /\ \E v \in variables : domains[v] = {}) => ac3Result = "False"
    /\ (revised /\ domains[lastArc[1]] = {}) => ac3Result = "False"

(* C6: after enforce_node_consistency() every domain is exactly the set of   *)
(* supplied words that have the length of its variable.                      *)
C6_NodeConsistency ==
    pc = "ac3_init" =>
        \A v \in variables : domains[v] = {w \in words : Len(w) = v.length}

\* node consistency removed some, but not all, words of a variable
C6_Witness ==
    /\ pc = "ac3_init"
    /\ \E v \in variables : domains[v] # words /\ domains[v] # {}

(* C7: revise(x, y) changes nothing and returns False when x = y or x and y  *)
(* do not overlap; otherwise it leaves in domains[x] exactly the words that  *)
(* have an agreeing word in domains[y], changes no other domain, and returns *)
(* True iff it removed a word.                                               *)
C7_Revise ==
    [][(pc = "ac3_loop" /\ Len(arcs) > 0) =>
        LET x == Head(arcs)[1]
            y == Head(arcs)[2]
        IN  IF x = y \/ ~Crossing(x, y)
            THEN domains' = domains /\ revised' = FALSE
            ELSE /\ domains'[x] =
                        {w \in domains[x] : \E w2 \in domains[y] : Agree(x, w, y, w2)}
                 /\ \A v \in variables \ {x} : domains'[v] = domains[v]
                 /\ revised' = (domains'[x] # domains[x])]_vars

\* revise(x, y) removed some, but not all, words of domains[x]
C7_Witness ==
    /\ pc = "ac3_loop"
    /\ revised
    /\ domains[lastArc[1]] # {}
    /\ domains[lastArc[2]] # {}

----------------------------------------------------------------------------
(* The heuristics of backtrack, stated on the call that has just chosen *)

\* a call of backtrack has just selected a variable and ordered its values
Selected == pc = "bt_call" /\ Len(stack') = Len(stack) + 1

Unassigned == variables \ DOMAIN assignment

Degree(v) == Cardinality({u \in variables : Crossing(u, v)})

\* the unassigned variables with the fewest remaining words
SmallestDomains ==
    {v \in Unassigned :
        \A u \in Unassigned : Cardinality(domains[v]) <= Cardinality(domains[u])}

\* how many words of the domains of the unassigned neighbours of var the word w rules out
RulesOut(var, w) ==
    Cardinality({p \in Unassigned \X Vocabulary :
                    /\ Crossing(var, p[1])
                    /\ p[2] \in domains[p[1]]
                    /\ ~Agree(var, w, p[1], p[2])})

C9_SelectHighestDegree ==
    [][Selected =>
        LET var == stack'[Len(stack')].var
        IN  /\ var \in SmallestDomains
            /\ \A u \in SmallestDomains : Degree(var) >= Degree(u)]_vars

(* C10: order_domain_values returns a permutation of domains[var] in         *)
(* ascending order of the number of words ruled out in the domains of the    *)
(* unassigned neighbours, and backtrack tries the values in that order.      *)
C10_LeastConstrainingFirst ==
    [][/\ Selected =>
            LET var == stack'[Len(stack')].var
                values == stack'[Len(stack')].values
            IN  /\ {values[n] : n \in 1..Len(values)} = domains[var]
                /\ Len(values) = Cardinality(domains[var])
                /\ \A m \in 1..Len(values) : \A n \in 1..Len(values) :
                      RulesOut(var, values[m]) < RulesOut(var, values[n]) => m < n
       /\ (pc = "bt_loop" /\ pc' = "bt_check") =>
            LET top == stack[Len(stack)]
            IN  /\ assignment'[top.var] = top.values[top.tried + 1]
                /\ stack'[Len(stack)].tried = top.tried + 1
                /\ stack'[Len(stack)].values = top.values]_vars

\* backtrack is trying the second value of a call, which rules out more words
\* than the first one did
C10_Witness ==
    /\ pc = "bt_check"
    /\ LET top == stack[Len(stack)]
       IN  /\ top.tried = 2
           /\ \E u \in Unassigned : Crossing(top.var, u)
           /\ RulesOut(top.var, top.values[1]) < RulesOut(top.var, top.values[2])

----------------------------------------------------------------------------
(* C11: on a puzzle of two slots crossing at one cell whose word list admits *)
(* exactly one agreeing pairing, solve() returns that pairing, whatever the  *)
(* iteration order of the variable set and of the word sets.                 *)
C11_UniquePairingReturned ==
    (pc = "done" /\ Cardinality(variables) = 2 /\ Cardinality(Solutions) = 1) =>
        /\ returned = "assignment"
        /\ result \in Solutions

\* solve() returned the only agreeing pairing although a slot had two fitting words
C11_Witness ==
    /\ pc = "done"
    /\ Cardinality(variables) = 2
    /\ Cardinality(Solutions) = 1
    /\ returned = "assignment"
    /\ \E v \in variables : Cardinality({w \in words : Len(w) = v.length}) >= 2

\* every ordered pair (v, neighbour of v)
AllArcs == {p \in variables \X variables : Crossing(p[1], p[2])}

\* the arcs held by the worklist
Queued(queue) == {queue[n] : n \in 1..Len(queue)}

(* C12: the initial worklist of ac3() called without arcs holds every        *)
(* ordered pair (v, neighbour), both directions of every overlapping pair.   *)
C12_InitialWorklistAllArcs ==
    (pc = "ac3_loop" /\ lastArc = <<>>) => Queued(arcs) = AllArcs

(* C13: after a revision of the popped arc (x, y) the arcs appended are      *)
(* exactly the arcs (x, z), z a neighbour of x other than y, that are not    *)
(* already queued; the worklist never holds a duplicate arc nor an arc       *)
(* between variables that do not overlap.                                    *)
C13_RequeueNeighboursOfRevised ==
    [][/\ (pc = "ac3_loop" /\ Len(arcs) > 0 /\ revised') =>
            LET x == Head(arcs)[1]
                y == Head(arcs)[2]
                rest == Tail(arcs)
                expected == {p \in AllArcs : p[1] = x /\ p[2] # y} \ Queued(rest)
            IN  /\ Len(arcs') = Len(rest) + Cardinality(expected)
                /\ SubSeq(arcs', 1, Len(rest)) = rest
                /\ Queued(arcs') = Queued(rest) \cup expected
       /\ Queued(arcs') \subseteq AllArcs
       /\ Cardinality(Queued(arcs')) = Len(arcs')]_vars

(* C14: ac3() terminates: once its loop is entered, the worklist eventually  *)
(* runs empty and ac3 returns (or it reports failure).                       *)
C14_AC3Terminates == (pc = "ac3_loop") ~> (ac3Result # "none")

\* ac3 has returned after processing an arc that a revision had re-queued
C14_Witness ==
    /\ ac3Result # "none"
    /\ lastArc # <<>>
    /\ lastArc[1] = lastArc[2]

----------------------------------------------------------------------------
(* The calls of backtrack *)

Searching == pc \in {"bt_call", "bt_loop", "bt_check"}

\* the assignment with which the call of depth n was entered: the entries of
\* the calls below it, each at the value it is recursing on
EntryAssignment(n) ==
    [v \in {stack[m].var : m \in 1..(n - 1)} |->
        LET m == CHOOSE m \in 1..(n - 1) : stack[m].var = v
        IN  stack[m].values[stack[m].tried]]

(* C15: undo discipline: a call of backtrack that is about to try its next   *)
(* candidate or to return failure has removed the entry it added, so the     *)
(* shared assignment is what it was when the call was entered; after the     *)
(* outermost failure it is empty again.                                      *)
C15_UndoDiscipline ==
    /\ pc = "bt_call" => assignment = EntryAssignment(Len(stack) + 1)
    /\ pc = "bt_loop" => assignment = EntryAssignment(Len(stack))
    /\ (pc = "done" /\ returned = "None") => assignment = EmptyAssignment

\* a call at depth two has tried and undone all its candidates and is about to
\* return failure to its caller
C15_Witness ==
    /\ pc = "bt_loop"
    /\ Len(stack) = 2
    /\ stack[2].tried >= 1
    /\ stack[2].tried = Len(stack[2].values)

(* C16: backtracking search never mutates the domains: from the first call   *)
(* of backtrack until solve() returns no domain changes.                     *)
C16_SearchKeepsDomains == [][Searching => domains' = domains]_vars

\* the search is two calls deep and has a tentative entry to check
C16_Witness == pc = "bt_check" /\ Len(stack) = 2

(* C17: at the entry of every call of backtrack the partial assignment has   *)
(* words of the right length, no word twice and agreeing overlaps.           *)
C17_EntryAssignmentConsistent ==
    pc = "bt_call" => SatisfiesConstraints(assignment)

\* a call is entered with two slots assigned and one still open
C17_Witness ==
    /\ pc = "bt_call"
    /\ Cardinality(DOMAIN assignment) = 2
    /\ Cardinality(variables) = 3

(* C18: ac3(arcs) called with a supplied list of arcs works through it with  *)
(* the same revise and re-enqueue steps and finishes by returning True or    *)
(* False; it never ends in an error, also when a revision is made.           *)
C18_SuppliedArcsNeverRaise ==
    /\ pc \notin {"UnboundLocalError", "IndexError", "KeyError"}
    /\ (pc # "ac3_loop") => ac3Result \in {"True", "False"}

(* C19: if a domain is empty after the node- and arc-consistency passes,     *)
(* solve() returns None without tentatively assigning a word to any          *)
(* variable.                                                                 *)
C19_EmptyDomainNoAssignment ==
    ((Searching \/ pc = "done") /\ \E v \in variables : domains[v] = {}) =>
        /\ assignment = EmptyAssignment
        /\ pc # "bt_check"
        /\ pc = "done" => returned = "None"

\* solve() returned None for a puzzle in which one slot had no word left while
\* another still had candidates
C19_Witness ==
    /\ pc = "done"
    /\ returned = "None"
    /\ \E v \in variables : domains[v] = {}
    /\ \E u \in variables : domains[u] # {}

(* C20: index safety: once node consistency has run every word of            *)
(* domains[v] has length v.length, every assigned word has the length of its *)
(* variable, the overlap indices lie inside the words, and no character      *)
(* access of revise, order_domain_values or consistent is out of range.      *)
C20_IndexSafety ==
    /\ pc # "IndexError"
    /\ pc # "node" => \A v \in variables : \A w \in domains[v] : Len(w) = v.length
    /\ \A v \in DOMAIN assignment : Len(assignment[v]) = v.length
    /\ \A x \in variables : \A y \in variables :
          Crossing(x, y) => overlaps(x, y)[1] < x.length /\ overlaps(x, y)[2] < y.length

\* consistent() is about to compare three assigned slots at their overlaps, the
\* last character of a word among them
C20_Witness ==
    /\ pc = "bt_check"
    /\ Cardinality(DOMAIN assignment) = 3
    /\ \E x \in DOMAIN assignment : \E y \in DOMAIN assignment :
          Crossing(x, y) /\ overlaps(x, y)[1] = Len(assignment[x]) - 1

====
